---- MODULE Spec2Model ----
(***************************************************************************)
(* Model of scripts/get_tesla_token.py: the Tesla Fleet setup helper.      *)
(* main() drives partner registration per region, the local OAuth callback *)
(* capture (run_oauth_browser_flow, whose HTTPServer runs on its own       *)
(* thread), the authorization-code token exchange, region detection and    *)
(* the vehicle id lookup.                                                   *)
(*                                                                         *)
(* Strings that the code inspects (URLs, vendor error texts) are sequences *)
(* of tokens, so that strip(), rstrip("/"), lower() and the substring      *)
(* tests are computed rather than assumed.  The empty string is << >>.     *)
(***************************************************************************)
EXTENDS Integers, Sequences, FiniteSets, TLC

(***************************************************************************)
(* Bounds of the model.                                                    *)
(***************************************************************************)
\* HTTP requests the browser (or anything else) sends to the listener
MaxRequests == 2
\* largest --timeout-seconds, in units of the 0.2 s poll of the wait loop
MaxTimeout == 1

(***************************************************************************)
(* Program constants.                                                      *)
(***************************************************************************)
EU_AUDIENCE == <<"https://fleet-api.prd.eu.vn.cloud.tesla.com">>
NA_AUDIENCE == <<"https://fleet-api.prd.na.vn.cloud.tesla.com">>

REGION_AUDIENCE(region) == IF region = "na" THEN NA_AUDIENCE ELSE EU_AUDIENCE

REGION_ORDER == <<"eu", "na">>

TOKEN_HOST == <<"fleet-auth.prd.vn.cloud.tesla.com">>

\* https://{domain}/.well-known/appspecific/com.tesla.3p.public-key.pem
KEY_URL == <<"https://example.com", "/", ".well-known/appspecific/com.tesla.3p.public-key.pem">>

(***************************************************************************)
(* String helpers.                                                         *)
(***************************************************************************)
\* Python's "x or y" on strings (and on dicts modelled by their truthiness)
Or(x, y) == IF x # <<>> THEN x ELSE y

RECURSIVE LStrip(_)
LStrip(s) == IF s # <<>> /\ Head(s) = " " THEN LStrip(Tail(s)) ELSE s

RECURSIVE RStripOf(_, _)
RStripOf(s, ch) ==
    IF s # <<>> /\ s[Len(s)] = ch THEN RStripOf(SubSeq(s, 1, Len(s) - 1), ch) ELSE s

\* str.strip()
Strip(s) == RStripOf(LStrip(s), " ")

\* str.lower(), token by token
LowerTok(t) ==
    CASE t = "Already"    -> "already"
      [] t = "ALREADY"    -> "already"
      [] t = "Registered" -> "registered"
      [] t = "REGISTER"   -> "register"
      [] OTHER            -> t

Lower(s) == [i \in DOMAIN s |-> LowerTok(s[i])]

\* the lower-case tokens that have the word as a substring
Containing(word) ==
    CASE word = "already"  -> {"already"}
      [] word = "register" -> {"register", "registered"}
      [] OTHER             -> {word}

\* Python's  word in s
In(word, s) == \E i \in DOMAIN s : s[i] \in Containing(word)

Is2xx(status) == 200 <= status /\ status < 300

Statuses == {200, 300, 404}

(***************************************************************************)
(* Inputs: the command line after argparse (lines 386-418).                *)
(***************************************************************************)
\* urllib.parse.urlparse(redirect_uri): scheme, hostname, port, path.
\* hostname "" stands for None; port -1 stands for None.
RedirectTargets ==
    { [scheme |-> "http",  host |-> "localhost", port |-> 3000, path |-> "/callback"],
      [scheme |-> "http",  host |-> "localhost", port |-> 3000, path |-> ""],
      [scheme |-> "https", host |-> "localhost", port |-> 3000, path |-> "/callback"],
      [scheme |-> "http",  host |-> "",          port |-> 3000, path |-> "/callback"],
      [scheme |-> "http",  host |-> "localhost", port |-> -1,   path |-> "/callback"],
      [scheme |-> "http",  host |-> "localhost", port |-> 0,    path |-> "/callback"] }

\* --register-regions as typed: comma separated items
RegionInputs ==
    { <<"eu">>, <<"na", "eu">>, <<" EU ", "na", "eu">>, <<"apac">> }

\* item.strip().lower()
ItemRegion(item) ==
    CASE item = " EU " -> "eu"
      [] OTHER         -> item

RECURSIVE NormalizeFrom(_, _)
NormalizeFrom(items, out) ==
    IF items = <<>> THEN out
    ELSE LET region == ItemRegion(Head(items))
         IN  NormalizeFrom(Tail(items),
                 IF region \in {"na", "eu"} /\ \A i \in DOMAIN out : out[i] # region
                 THEN Append(out, region) ELSE out)

\* the known regions taken in the order of REGION_ORDER, not of the input
normalize_region_list_Sorted(value) ==
    SelectSeq(REGION_ORDER, LAMBDA r : \E i \in DOMAIN value : ItemRegion(value[i]) = r)

\* normalize_region_list
normalize_region_list(value) == NormalizeFrom(value, <<>>)

\* main, lines 414-416
RegisterRegions(value) ==
    IF normalize_region_list(value) = <<>> THEN <<"eu", "na">>
    ELSE normalize_region_list(value)

\* forced --audience values ("" when the flag is absent)
AudienceInputs == { <<>>, <<"https://forced">> }

(***************************************************************************)
(* Vendor responses, as the HTTP primitives return them:                   *)
(* (status, data, raw) with raw = "" on 2xx (lines 74-144).                *)
(***************************************************************************)
Texts == { <<>>, <<"Already", "Registered">>, <<"already">>, <<"invalid">>, <<" ">> }

\* a JSON object body carrying error and message fields
JsonBody(e, m) ==
    [truthy |-> TRUE, error |-> e, message |-> m, raw |-> <<"{">> \o e \o m \o <<"}">>]

\* a body that is not JSON (data stays {}), or an empty body
PlainBody(t) == [truthy |-> FALSE, error |-> <<>>, message |-> <<>>, raw |-> t]

ErrorBodies ==
    {JsonBody(e, m) : e \in Texts, m \in {<<>>, <<"Already", "Registered">>}}
        \cup {PlainBody(t) : t \in Texts}

\* post_json / get_json result for a registration or verification call
OkResponse(status) ==
    [status |-> status, truthy |-> FALSE, error |-> <<>>, message |-> <<>>, raw |-> <<>>]

ErrResponse(status, body) ==
    [status |-> status, truthy |-> body.truthy, error |-> body.error,
     message |-> body.message, raw |-> body.raw]

\* answers to a registration POST
ApiResponses ==
    {OkResponse(200)}
        \cup {ErrResponse(404, b) : b \in ErrorBodies}
        \cup {ErrResponse(300, PlainBody(<<>>))}

\* answers to the key verification GET
VerifyResponses ==
    {OkResponse(200), ErrResponse(300, PlainBody(<<>>)),
     ErrResponse(404, JsonBody(<<"invalid">>, <<>>))}

\* token endpoint answers: status and whether access_token is present
TokenResponses == [status : Statuses, has_token : BOOLEAN]

\* before any credential POST
NoAnswer == [status |-> 0, has_token |-> FALSE]

\* fleet_api_base_url values of a /users/region answer ("" when absent)
DeclaredBases ==
    { <<>>, <<"https://x">>, <<"https://x", "/">>, <<" ", "https://x", "/", "/", " ">>,
      <<" ">>, <<"/">> }

\* a non-2xx answer is not looked into
RegionResponses ==
    [status : {200}, base : DeclaredBases] \cup [status : {300, 404}, base : {<<>>}]

\* longest payload["response"] list of a /vehicles answer
MaxVehicles == 2

\* an element of the list: a dict with a truthy "id", a dict whose "id" is
\* absent or falsy (id = ""), or something that is not a dict
VehicleElements ==
    { [dict |-> TRUE,  id |-> "v1"], [dict |-> TRUE,  id |-> "v2"],
      [dict |-> TRUE,  id |-> ""],   [dict |-> FALSE, id |-> ""] }

VehicleLists == UNION {[1..n -> VehicleElements] : n \in 0..MaxVehicles}

\* /vehicles answers: status, whether payload["response"] is a list, the list
VehicleResponses ==
    [status : {200}, is_list : {TRUE}, list : VehicleLists]
        \cup [status : {200, 300, 404}, is_list : {FALSE}, list : {<<>>}]

\* before the /vehicles call
NoListing == [status |-> 0, is_list |-> FALSE, list |-> <<>>]

(***************************************************************************)
(* The helpers of the partner flow, as functions of the vendor's answers.  *)
(***************************************************************************)
\* the test of line 273 lost: the field of a 2xx answer is returned as it is,
\* empty when the answer has none
build_partner_token_NoFieldCheck(resp, fresh) ==
    IF resp.status < 200 \/ resp.status >= 300 THEN <<"", "partner token failed">>
    ELSE <<IF resp.has_token THEN fresh ELSE "", "">>

\* build_partner_token: <<token, error>>; fresh is the credential the
\* token endpoint issues in this answer
build_partner_token(resp, fresh) ==
    IF resp.status < 200 \/ resp.status >= 300 THEN <<"", "partner token failed">>
    ELSE IF ~resp.has_token THEN <<"", "partner token missing access_token">>
    ELSE <<fresh, "">>

\* register_partner_account, lines 289-294: the error text of a double failure
\* merged = payload2 or payload or {}
MergedPayload(r1, r2) == IF r2.truthy THEN r2 ELSE r1

RegisterErrText(r1, r2) ==
    LET merged   == MergedPayload(r1, r2)
        err_text == Strip(Or(merged.error, merged.message))
    IN  IF err_text = <<>> THEN Strip(Or(r2.raw, r1.raw)) ELSE err_text

\* register_partner_account, lines 296-300: <<ok, message>> after two non-2xx
RegisterFailure(r1, r2) ==
    LET low == Lower(RegisterErrText(r1, r2))
    IN  IF In("already", low) /\ In("register", low)
        THEN <<TRUE, "already_registered">>
        ELSE <<FALSE, "failed">>

\* register_partner_account after a non-2xx first answer r1: <<ok, message>>
register_partner_account(r1, r2) ==
    IF Is2xx(r2.status) THEN <<TRUE, "registered">> ELSE RegisterFailure(r1, r2)

\* a verification that never succeeds
verify_public_key_Never(resp) == FALSE

\* verify_public_key: success iff 2xx
verify_public_key(resp) == Is2xx(resp.status)

\* the declared base URL returned as received, without strip() and rstrip("/")
DetectedAudience_Raw(region, resp) ==
    IF resp.base # <<>> THEN resp.base ELSE REGION_AUDIENCE(region)

\* detect_user_region_with_token, lines 318-325: the audience a 2xx answer yields
DetectedAudience(region, resp) ==
    LET fleet_url == Strip(resp.base)
    IN  IF fleet_url # <<>> THEN RStripOf(fleet_url, "/") ELSE REGION_AUDIENCE(region)

\* fetch_vehicle_id, lines 337-338: first.get("id") on a first element that is
\* not a dict raises AttributeError
FetchRaises(resp) ==
    Is2xx(resp.status) /\ resp.is_list /\ resp.list # <<>> /\ ~resp.list[1].dict

\* the last element selected in place of response[0]
fetch_vehicle_id_Last(resp) ==
    IF resp.status < 200 \/ resp.status >= 300 THEN <<"", "HTTP error">>
    ELSE IF resp.is_list /\ resp.list # <<>> /\ resp.list[Len(resp.list)].id # ""
         THEN <<resp.list[Len(resp.list)].id, "">>
    ELSE <<"", "No vehicles returned from /vehicles response.">>

\* fetch_vehicle_id: <<vid, error>> when it returns
fetch_vehicle_id(resp) ==
    IF resp.status < 200 \/ resp.status >= 300 THEN <<"", "HTTP error">>
    ELSE IF resp.is_list /\ resp.list # <<>> /\ resp.list[1].id # ""
         THEN <<resp.list[1].id, "">>
    ELSE <<"", "No vehicles returned from /vehicles response.">>

(***************************************************************************)
(* State.                                                                  *)
(***************************************************************************)
VARIABLES
    args,              \* the parsed command line
    pc,                \* main thread: the statement it is about to run
    exit_code,         \* "running", or the process exit status
    calls,             \* history: outbound HTTP calls of the current phase, in order
    contacted,         \* history: the kinds of outbound call made so far in the run
    answers,           \* history: the status answered to each call of calls, in order
    region_i,          \* main: index of the region being registered
    partner_token,     \* main: partner_token of this loop iteration
    credential_answer, \* history: the token host's answer to the last credential POST
    reg1,              \* register_partner_account: first answer (payload, raw_err)
    reg2,              \* register_partner_account: second answer (payload2, raw_err2)
    registered,        \* return value of register_partner_account
    report,            \* printed "[REGION] registration: ...; public key: ..." lines
    state,             \* run_oauth_browser_flow: generated state
    result,            \* run_oauth_browser_flow: the shared result dict
    listener,          \* the HTTPServer socket: "none", "serving", "stopped", "closed"
    shutdown_request,  \* HTTPServer: shutdown() has been called
    hpc,               \* server thread: "idle" or its position in do_GET
    req,               \* server thread: the request being handled
    nreq,              \* requests accepted so far
    received,          \* history: a callback-path request has been handled in full
    early,             \* history: a callback-path request came in before the deadline
    source,            \* history: the callback-path request do_GET last wrote from
    elapsed,           \* time.time() - started, in polls
    raising,           \* a KeyboardInterrupt is propagating through the finally
    code,              \* main: code returned by run_oauth_browser_flow
    oauth_err,         \* main: error returned by run_oauth_browser_flow
    access_token,      \* main: user access token
    probes,            \* detect_user_region_with_token: regions probed, with answers
    detected,          \* return value of detect_user_region_with_token
    resolved_audience, \* main
    vehicle,           \* return value of fetch_vehicle_id
    listing            \* history: the answer to the /vehicles call

vars == <<args, pc, exit_code, calls, contacted, answers, region_i, partner_token,
          credential_answer, reg1, reg2,
          registered, report, state,
          result, listener, shutdown_request, hpc, req, nreq, received, source,
          early, elapsed, raising, code, oauth_err, access_token, probes, detected,
          resolved_audience, vehicle, listing>>

regVars  == <<region_i, partner_token, credential_answer, reg1, reg2, registered, report>>
flowVars == <<state, result, listener, shutdown_request, elapsed, raising>>
srvVars  == <<hpc, req, nreq, received, early, source>>
postVars == <<access_token, probes, detected, resolved_audience, vehicle, listing>>

States == {"s1", "s2"}

NoResult == [code |-> "None", state |-> "None", error |-> "None"]

Paths == {"/callback", "/", "/favicon.ico"}

\* query strings, after parse_qs: "None" is an absent (or blank) parameter
Queries ==
    [code : {"None", "c1", "c2"}, state : {"None"} \cup States,
     error : {"None", "access_denied"}]

\* the query strings tried on paths other than the callback path
StrayQueries ==
    { [code |-> "None", state |-> "None", error |-> "None"],
      [code |-> "c1",   state |-> "s1",   error |-> "None"],
      [code |-> "None", state |-> "s2",   error |-> "access_denied"] }

Request(path, q) == [path |-> path, code |-> q.code, state |-> q.state, error |-> q.error]

\* GET requests the listener may receive when it serves the path callback
Requests(callback) ==
    {Request(callback, q) : q \in Queries}
        \cup {Request(p, q) : p \in Paths \ {callback}, q \in StrayQueries}

NoRequest == [path |-> "", code |-> "None", state |-> "None", error |-> "None"]

\* client id, client secret and domain: all given, or one of them missing
Identities ==
    { [client_id |-> "cid", client_secret |-> "secret", domain |-> "example.com"],
      [client_id |-> "",    client_secret |-> "secret", domain |-> "example.com"],
      [client_id |-> "cid", client_secret |-> "",       domain |-> "example.com"],
      [client_id |-> "cid", client_secret |-> "secret", domain |-> ""] }

netVars  == <<calls, contacted, answers>>

Call(kind, to, cred, aud) == [kind |-> kind, to |-> to, cred |-> cred, aud |-> aud]

CountKind(kind) == Cardinality({i \in DOMAIN calls : calls[i].kind = kind})

\* the credential the token endpoint issues on its n-th client-credentials answer
PartnerCredential(n) == <<"pt1", "pt2", "pt3">>[n]

\* args after lines 410-418
CommandLine(id, skip_register, skip_key, regions, redirect, timeout, audience, fetch) ==
    [client_id |-> id.client_id, client_secret |-> id.client_secret,
     domain |-> id.domain, skip_register |-> skip_register,
     skip_public_key_check |-> skip_key,
     register_regions_input |-> regions,
     register_regions |-> RegisterRegions(regions),
     redirect_uri |-> redirect, timeout_seconds |-> timeout,
     audience |-> audience, fetch_vehicle_id |-> fetch]

FullIdentity ==
    [client_id |-> "cid", client_secret |-> "secret", domain |-> "example.com"]

DefaultRedirect ==
    [scheme |-> "http", host |-> "localhost", port |-> 3000, path |-> "/callback"]

HttpsRedirect ==
    [scheme |-> "https", host |-> "localhost", port |-> 3000, path |-> "/callback"]

\* The command lines explored.  Four families, each varying the inputs one
\* part of the program reads and fixing the others:
\*   the required values; the capture (redirect target and timeout, with
\*   --skip-register); the discovery (--audience, --fetch-vehicle-id); the
\*   registration phase (regions, key check) before a good or a bad redirect.
CommandLines ==
    {CommandLine(id, FALSE, TRUE, <<"eu">>, DefaultRedirect, 0, <<>>, TRUE) :
        id \in Identities}
    \cup {CommandLine(FullIdentity, TRUE, TRUE, <<"eu">>, redirect, timeout, <<>>, TRUE) :
        redirect \in RedirectTargets, timeout \in 0..MaxTimeout}
    \cup {CommandLine(FullIdentity, TRUE, TRUE, <<"eu">>, DefaultRedirect, 0, audience, fetch) :
        audience \in AudienceInputs, fetch \in BOOLEAN}
    \cup {CommandLine(FullIdentity, FALSE, skip_key, regions, redirect, 0, <<>>, FALSE) :
        skip_key \in BOOLEAN, regions \in RegionInputs,
        redirect \in {DefaultRedirect, HttpsRedirect}}

Init ==
    /\ args \in CommandLines
    /\ pc = "check_args"
    /\ exit_code = "running"
    /\ calls = <<>>
    /\ contacted = {}
    /\ answers = <<>>
    /\ region_i = 1
    /\ partner_token = ""
    /\ credential_answer = NoAnswer
    /\ reg1 = OkResponse(200)
    /\ reg2 = OkResponse(200)
    /\ registered = <<FALSE, "">>
    /\ report = <<>>
    /\ state = ""
    /\ result = NoResult
    /\ listener = "none"
    /\ shutdown_request = FALSE
    /\ hpc = "idle"
    /\ req = NoRequest
    /\ source = NoRequest
    /\ nreq = 0
    /\ received = FALSE
    /\ early = FALSE
    /\ elapsed = 0
    /\ raising = FALSE
    /\ code = ""
    /\ oauth_err = ""
    /\ access_token = ""
    /\ probes = <<>>
    /\ detected = <<<<>>, "">>
    /\ resolved_audience = <<>>
    /\ vehicle = <<"", "">>
    /\ listing = NoListing

\* an outbound HTTP call leaves the process
Send(call) == calls' = Append(calls, call) /\ contacted' = contacted \cup {call.kind}

\* sys.exit / return from main with the given status
Exit(status) == pc' = "exit" /\ exit_code' = status

\* the status the call just sent was answered with
Answer(status) == answers' = Append(answers, status)

(***************************************************************************)
(* main: argument checks and the registration phase (lines 424-496).       *)
(***************************************************************************)
\* lines 424-431: parser.error exits with status 2
CheckArgs ==
    /\ pc = "check_args"
    /\ IF args.client_id = "" \/ args.client_secret = "" THEN Exit("2")
       ELSE IF args.skip_register THEN pc' = "oauth" /\ UNCHANGED exit_code
       ELSE IF args.domain = "" THEN Exit("2")
       ELSE pc' = "keys" /\ UNCHANGED exit_code
    /\ UNCHANGED <<args, netVars, regVars, flowVars, srvVars, code, oauth_err, postVars>>

\* where main continues after the key pair and the hosted-key check
RegistrationEntry == IF args.skip_public_key_check THEN "partner_token" ELSE "key_fetch"

\* lines 433-454: the key pair exists or is generated by openssl
GenerateKeys ==
    /\ pc = "keys"
    /\ \E generated \in BOOLEAN, failed \in BOOLEAN :
          IF generated /\ failed THEN Exit("1")
          ELSE pc' = RegistrationEntry /\ UNCHANGED exit_code
    /\ UNCHANGED <<args, netVars, regVars, flowVars, srvVars, code, oauth_err, postVars>>

\* lines 456-473: GET of the hosted public key
FetchHostedKey ==
    /\ pc = "key_fetch"
    /\ Send(Call("key_fetch", KEY_URL, "", <<>>))
    /\ \E answer \in {"pem", "not_pem", "error"} :
          /\ Answer(IF answer = "error" THEN 404 ELSE 200)
          /\ IF answer = "pem" THEN pc' = "partner_token" /\ UNCHANGED exit_code
             ELSE Exit("1")
    /\ UNCHANGED <<args, regVars, flowVars, srvVars, code, oauth_err, postVars>>

Region == args.register_regions[region_i]

\* the credential of every region asked for the audience of the first one
CredentialAudience_First == REGION_AUDIENCE(args.register_regions[1])

\* lines 477 and 482: the audience the partner credential is asked for
CredentialAudience == REGION_AUDIENCE(Region)

\* lines 476-486: client-credentials POST for the region's audience
BuildPartnerToken ==
    /\ pc = "partner_token"
    /\ Send(Call("partner_token", TOKEN_HOST, "", CredentialAudience))
    /\ \E resp \in TokenResponses :
          LET r == build_partner_token(resp, PartnerCredential(CountKind("partner_token") + 1))
          IN  /\ Answer(resp.status)
              /\ credential_answer' = resp
              /\ partner_token' = r[1]
              /\ IF r[2] # "" THEN Exit("1")
                 ELSE pc' = "register1" /\ UNCHANGED exit_code
    /\ UNCHANGED <<args, region_i, reg1, reg2, registered, report, flowVars, srvVars, code,
                   oauth_err, postVars>>

\* line 281: the body of the first registration POST
FirstPayload == <<"domain">>

\* the second POST repeating the body of the first
SecondPayload_DomainOnly == <<"domain">>

\* line 285: the body of the second registration POST
SecondPayload == <<"domain", "public_key_url">>

\* lines 281-283: first registration POST, naming only the domain
RegisterFirst ==
    /\ pc = "register1"
    /\ Send(Call("register", REGION_AUDIENCE(Region), partner_token, FirstPayload))
    /\ \E resp \in ApiResponses :
          /\ Answer(resp.status)
          /\ reg1' = resp
          /\ IF Is2xx(resp.status)
             THEN /\ registered' = <<TRUE, "registered">>
                  /\ report' = Append(report, [region |-> Region, registration |-> "registered",
                                               key |-> ""])
                  /\ pc' = "verify"
             ELSE pc' = "register2" /\ UNCHANGED <<registered, report>>
    /\ reg2' = OkResponse(200)
    /\ UNCHANGED <<args, exit_code, region_i, partner_token, credential_answer, flowVars,
                   srvVars, code,
                   oauth_err, postVars>>

\* lines 285-300 and 489-492: second POST, adding public_key_url
RegisterSecond ==
    /\ pc = "register2"
    /\ Send(Call("register", REGION_AUDIENCE(Region), partner_token, SecondPayload))
    /\ \E resp \in ApiResponses :
          LET outcome == register_partner_account(reg1, resp)
          IN  /\ Answer(resp.status)
              /\ reg2' = resp
              /\ registered' = outcome
              /\ IF outcome[1]
                 THEN /\ report' = Append(report, [region |-> Region,
                                                   registration |-> outcome[2], key |-> ""])
                      /\ pc' = "verify"
                      /\ UNCHANGED exit_code
                 ELSE Exit("1") /\ UNCHANGED report
    /\ UNCHANGED <<args, region_i, partner_token, credential_answer, reg1, flowVars, srvVars,
                   code, oauth_err,
                   postVars>>

\* a failed verification ending the run
VerifyOutcome_Abort(verified, more) ==
    IF ~verified THEN "abort" ELSE IF more THEN "next_region" ELSE "authorize"

\* lines 494-496 and the loop head at 476: the result of the verification is
\* printed and nothing else; the loop goes to the next region, or main goes on
VerifyOutcome(verified, more) == IF more THEN "next_region" ELSE "authorize"

\* lines 494-496 and the loop head at 476
VerifyPublicKey ==
    /\ pc = "verify"
    /\ Send(Call("verify", REGION_AUDIENCE(Region), partner_token, <<>>))
    /\ \E resp \in VerifyResponses :
          LET verified == verify_public_key(resp)
              outcome  == VerifyOutcome(verified, region_i < Len(args.register_regions))
          IN  /\ Answer(resp.status)
              /\ report' = [report EXCEPT ![Len(report)].key =
                               IF verified THEN "verified" ELSE "verify failed"]
              /\ CASE outcome = "next_region" ->
                         /\ region_i' = region_i + 1
                         /\ pc' = "partner_token"
                         /\ UNCHANGED exit_code
                    [] outcome = "authorize" ->
                         /\ region_i' = region_i
                         /\ pc' = "oauth"
                         /\ UNCHANGED exit_code
                    [] OTHER -> Exit("1") /\ UNCHANGED region_i
    /\ reg1' = OkResponse(200)
    /\ reg2' = OkResponse(200)
    /\ registered' = <<FALSE, "">>
    /\ UNCHANGED <<args, partner_token, credential_answer, flowVars, srvVars, code, oauth_err,
                   postVars>>

(***************************************************************************)
(* run_oauth_browser_flow: the main thread (lines 169-234).                *)
(***************************************************************************)
\* line 173: path = parsed_redirect.path or "/"
CallbackPath == IF args.redirect_uri.path = "" THEN "/" ELSE args.redirect_uri.path

\* line 174: scheme != "http" or not host or not port
MalformedRedirect(r) == r.scheme # "http" \/ r.host = "" \/ r.port = -1 \/ r.port = 0

\* lines 170-179; the registration phase, if any, is over
StartFlow ==
    /\ pc = "oauth"
    /\ IF MalformedRedirect(args.redirect_uri)
       THEN /\ code' = ""
            /\ oauth_err' = "redirect_uri must be http://localhost:3000/callback style for local capture"
            /\ pc' = "returned"
            /\ UNCHANGED state
       ELSE /\ \E s \in States : state' = s
            /\ pc' = "bind"
            /\ UNCHANGED <<code, oauth_err>>
    /\ result' = NoResult
    /\ calls' = <<>>
    /\ answers' = <<>>
    /\ report' = <<>>
    /\ UNCHANGED <<args, exit_code, contacted, region_i, partner_token, credential_answer,
                   reg1, reg2,
                   registered, listener, shutdown_request, elapsed, raising, srvVars,
                   postVars>>

\* lines 205-211: bind the listener and start serve_forever on its thread
Bind ==
    /\ pc = "bind"
    /\ \E bound \in BOOLEAN :
          IF bound
          THEN listener' = "serving" /\ pc' = "announce" /\ UNCHANGED <<code, oauth_err>>
          ELSE /\ code' = ""
               /\ oauth_err' = "Cannot bind callback server"
               /\ pc' = "returned"
               /\ UNCHANGED listener
    /\ UNCHANGED <<args, exit_code, netVars, regVars, state, result, shutdown_request,
                   elapsed, raising, srvVars, postVars>>

\* lines 213-218: print the URL, open the browser, take the start time
Announce ==
    /\ pc = "announce"
    /\ pc' = "wait"
    /\ elapsed' = 0
    /\ UNCHANGED <<args, exit_code, netVars, regVars, state, result, listener,
                   shutdown_request, raising, srvVars, code, oauth_err, postVars>>

\* the deadline test lost: the loop ends only on a capture
Expired_NoDeadline == elapsed < 0

\* line 220
Expired == ~(elapsed < args.timeout_seconds)

\* line 221
Captured == result.code # "None" \/ result.error # "None"

\* lines 219-223: one iteration of the wait loop (a sleep lets one poll of time pass)
Wait ==
    /\ pc = "wait"
    /\ IF Expired \/ Captured
       THEN pc' = "shutdown" /\ UNCHANGED elapsed
       ELSE /\ pc' = "wait"
            /\ elapsed' = IF elapsed <= MaxTimeout THEN elapsed + 1 ELSE elapsed
    /\ UNCHANGED <<args, exit_code, netVars, regVars, state, result, listener,
                   shutdown_request, raising, srvVars, code, oauth_err, postVars>>

\* Ctrl-C (KeyboardInterrupt) in the main thread between thread.start() and the
\* return: inside the try (lines 219-223) the finally runs before it propagates,
\* at lines 213-218 nothing catches it and main dies with the traceback
Interrupt ==
    /\ \/ /\ pc = "announce"
          /\ pc' = "exit"
          /\ exit_code' = "crash"
          /\ UNCHANGED raising
       \/ /\ pc = "wait"
          /\ pc' = "shutdown"
          /\ raising' = TRUE
          /\ UNCHANGED exit_code
    /\ UNCHANGED <<args, netVars, regVars, state, result, listener, shutdown_request,
                   elapsed, srvVars, code, oauth_err, postVars>>

\* line 225, first half: server.shutdown() sets the shutdown flag
ShutdownRequest ==
    /\ pc = "shutdown"
    /\ shutdown_request' = TRUE
    /\ pc' = "join"
    /\ UNCHANGED <<args, exit_code, netVars, regVars, state, result, listener, elapsed,
                   raising, srvVars, code, oauth_err, postVars>>

\* a shutdown() that returns without waiting for the request in progress
HandlerDone_NoJoin == TRUE

\* serve_forever leaves its loop only between requests
HandlerDone == hpc = "idle"

\* line 225, second half: shutdown() returns once serve_forever has left its
\* loop, which it does only between requests
ShutdownJoin ==
    /\ pc = "join"
    /\ HandlerDone
    /\ listener' = "stopped"
    /\ pc' = "close"
    /\ UNCHANGED <<args, exit_code, netVars, regVars, state, result, shutdown_request,
                   elapsed, raising, srvVars, code, oauth_err, postVars>>

\* line 226: server.server_close(); then the pending exception, if any, goes on
ServerClose ==
    /\ pc = "close"
    /\ listener' = "closed"
    /\ IF raising THEN Exit("crash") ELSE pc' = "validate" /\ UNCHANGED exit_code
    /\ UNCHANGED <<args, netVars, regVars, state, result, shutdown_request, elapsed,
                   raising, srvVars, code, oauth_err, postVars>>

\* the state comparison of lines 232-233 left out
Validation_NoStateCheck(res, st) ==
    IF res.error # "None" THEN <<"", "OAuth error from callback">>
    ELSE IF res.code = "None" THEN <<"", "Timed out waiting for callback code.">>
    ELSE <<res.code, "">>

\* the tests of lines 228 and 230 swapped: the missing code is looked at first
Validation_CodeFirst(res, st) ==
    IF res.code = "None" THEN <<"", "Timed out waiting for callback code.">>
    ELSE IF res.error # "None" THEN <<"", "OAuth error from callback">>
    ELSE IF res.state # st THEN <<"", "State mismatch; aborting for safety.">>
    ELSE <<res.code, "">>

\* lines 228-234: <<code, error>>
Validation(res, st) ==
    IF res.error # "None" THEN <<"", "OAuth error from callback">>
    ELSE IF res.code = "None" THEN <<"", "Timed out waiting for callback code.">>
    ELSE IF res.state # st THEN <<"", "State mismatch; aborting for safety.">>
    ELSE <<res.code, "">>

Validate ==
    /\ pc = "validate"
    /\ code' = Validation(result, state)[1]
    /\ oauth_err' = Validation(result, state)[2]
    /\ pc' = "returned"
    /\ UNCHANGED <<args, exit_code, netVars, regVars, flowVars, srvVars, postVars>>

(***************************************************************************)
(* run_oauth_browser_flow: the server thread (Handler.do_GET, 185-203).    *)
(***************************************************************************)
\* serve_forever takes the next request; it checks the shutdown flag first.
\* early: a request to the callback path came in before the deadline, that is,
\* before line 218 took the start time or while the last time main looked
\* (line 220) was short of timeout_seconds
Accept ==
    /\ listener = "serving"
    /\ exit_code = "running"
    /\ ~shutdown_request
    /\ hpc = "idle"
    /\ nreq < MaxRequests
    /\ \E r \in Requests(CallbackPath) :
          /\ req' = r
          /\ early' = (early \/ (r.path = CallbackPath /\ (pc = "announce" \/ ~Expired)))
    /\ nreq' = nreq + 1
    /\ hpc' = "do_GET"
    /\ UNCHANGED <<args, pc, exit_code, netVars, regVars, flowVars, received, source, code,
                   oauth_err, postVars>>

\* a prefix test in place of the equality of line 187
PathMatches_Prefix(request) == request.path = CallbackPath \/ CallbackPath = "/"

\* line 187
PathMatches(request) == request.path = CallbackPath

\* lines 186-187 and 193-194: the path test and the first of the three writes
DoGet ==
    /\ hpc = "do_GET"
    /\ exit_code = "running"
    /\ IF ~PathMatches(req)
       THEN hpc' = "not_found" /\ UNCHANGED <<result, source>>
       ELSE /\ result' = [result EXCEPT !.code = req.code]
            /\ source' = req
            /\ hpc' = "write_state"
    /\ UNCHANGED <<args, pc, exit_code, netVars, regVars, state, listener,
                   shutdown_request, elapsed, raising, req, nreq, received, early,
                   code, oauth_err, postVars>>

\* lines 188-191: the 404 answer
NotFound ==
    /\ hpc = "not_found"
    /\ exit_code = "running"
    /\ hpc' = "idle"
    /\ req' = NoRequest
    /\ UNCHANGED <<args, pc, exit_code, netVars, regVars, flowVars, nreq, received, early,
                   source,
                   code, oauth_err, postVars>>

\* line 195
WriteState ==
    /\ hpc = "write_state"
    /\ exit_code = "running"
    /\ result' = [result EXCEPT !.state = req.state]
    /\ hpc' = "write_error"
    /\ UNCHANGED <<args, pc, exit_code, netVars, regVars, state, listener,
                   shutdown_request, elapsed, raising, req, nreq, received, early,
                   source, code, oauth_err, postVars>>

\* line 196
WriteError ==
    /\ hpc = "write_error"
    /\ exit_code = "running"
    /\ result' = [result EXCEPT !.error = req.error]
    /\ hpc' = "respond"
    /\ UNCHANGED <<args, pc, exit_code, netVars, regVars, state, listener,
                   shutdown_request, elapsed, raising, req, nreq, received, early,
                   source, code, oauth_err, postVars>>

\* lines 198-203: the 200 page; the request has been handled
Respond ==
    /\ hpc = "respond"
    /\ exit_code = "running"
    /\ hpc' = "idle"
    /\ req' = NoRequest
    /\ received' = TRUE
    /\ UNCHANGED <<args, pc, exit_code, netVars, regVars, flowVars, nreq, early, source,
                   code,
                   oauth_err, postVars>>

(***************************************************************************)
(* main: after the capture (lines 509-579).                                *)
(***************************************************************************)
\* lines 509-511: an error of the capture ends the run
AfterFlow ==
    /\ pc = "returned"
    /\ IF oauth_err # "" THEN Exit("1") ELSE pc' = "exchange" /\ UNCHANGED exit_code
    /\ UNCHANGED <<args, netVars, regVars, flowVars, srvVars, code, oauth_err, postVars>>

\* line 515
TokenAudience == IF args.audience # <<>> THEN args.audience ELSE REGION_AUDIENCE("eu")

\* detection without regard to --audience
DetectionSkipped_Never == FALSE

\* lines 547-548: a forced audience is used as it is
DetectionSkipped == args.audience # <<>>

\* lines 513-536 and 547-548: the authorization-code grant
Exchange ==
    /\ pc = "exchange"
    /\ Send(Call("exchange", TOKEN_HOST, code, TokenAudience))
    /\ \E resp \in TokenResponses :
          /\ Answer(resp.status)
          /\ IF resp.status < 200 \/ resp.status >= 300 \/ ~resp.has_token
             THEN Exit("1") /\ UNCHANGED <<access_token, resolved_audience>>
             ELSE /\ access_token' = "user_token"
                  /\ resolved_audience' = args.audience
                  /\ pc' = IF DetectionSkipped THEN "vehicles" ELSE "detect"
                  /\ UNCHANGED exit_code
    /\ UNCHANGED <<args, regVars, flowVars, srvVars, code, oauth_err, probes, detected,
                   vehicle, listing>>

\* the early return of lines 324-325 lost: the loop goes on to the last region
ProbeOutcome_KeepLooking(resp, n) ==
    IF n < Len(REGION_ORDER) THEN "next"
    ELSE IF Is2xx(resp.status) THEN "found"
    ELSE "exhausted"

\* lines 315, 318 and 326: what the loop does after the n-th answer
ProbeOutcome(resp, n) ==
    IF Is2xx(resp.status) THEN "found"
    ELSE IF n < Len(REGION_ORDER) THEN "next"
    ELSE "exhausted"

\* lines 315-326: one iteration of the loop over REGION_ORDER
Probe ==
    /\ pc = "detect"
    /\ LET region == REGION_ORDER[Len(probes) + 1]
       IN  /\ Send(Call("region", REGION_AUDIENCE(region), access_token, <<>>))
           /\ \E resp \in RegionResponses :
                 /\ Answer(resp.status)
                 /\ probes' = Append(probes, [region |-> region, status |-> resp.status,
                                              base |-> resp.base])
                 /\ CASE ProbeOutcome(resp, Len(probes) + 1) = "found" ->
                            /\ detected' = <<DetectedAudience(region, resp), "">>
                            /\ pc' = "detected"
                      [] ProbeOutcome(resp, Len(probes) + 1) = "next" ->
                            pc' = "detect" /\ UNCHANGED detected
                      [] OTHER ->
                            /\ detected' = <<<<>>, "Could not determine user region">>
                            /\ pc' = "detected"
    /\ UNCHANGED <<args, exit_code, regVars, flowVars, srvVars, code, oauth_err,
                   access_token, resolved_audience, vehicle, listing>>

\* the substitution of line 551 lost: the audience of a failed detection is kept
ResolvedAudience_NoDefault(det) == det[1]

\* lines 549-551: the audience main goes on with after the detection returned det
ResolvedAudience(det) == IF det[2] # "" THEN REGION_AUDIENCE("eu") ELSE det[1]

\* lines 549-554: the default audience replaces a failed detection
Resolve ==
    /\ pc = "detected"
    /\ resolved_audience' = ResolvedAudience(detected)
    /\ pc' = "vehicles"
    /\ UNCHANGED <<args, exit_code, netVars, regVars, flowVars, srvVars, code, oauth_err,
                   access_token, probes, detected, vehicle, listing>>

\* lines 561-570
FetchVehicle ==
    /\ pc = "vehicles"
    /\ IF args.fetch_vehicle_id
       THEN /\ Send(Call("vehicles", resolved_audience, access_token, <<>>))
            /\ \E resp \in VehicleResponses :
                  /\ Answer(resp.status)
                  /\ listing' = resp
                  /\ IF FetchRaises(resp)
                     THEN Exit("crash") /\ UNCHANGED vehicle
                     ELSE /\ vehicle' = fetch_vehicle_id(resp)
                          /\ pc' = "finish"
                          /\ UNCHANGED exit_code
       ELSE pc' = "finish" /\ UNCHANGED <<exit_code, netVars, vehicle, listing>>
    /\ UNCHANGED <<args, regVars, flowVars, srvVars, code, oauth_err,
                   access_token, probes, detected, resolved_audience>>

\* lines 572-579
Finish ==
    /\ pc = "finish"
    /\ Exit("0")
    /\ UNCHANGED <<args, netVars, regVars, flowVars, srvVars, code, oauth_err, postVars>>

Next ==
    \/ CheckArgs \/ GenerateKeys \/ FetchHostedKey
    \/ BuildPartnerToken \/ RegisterFirst \/ RegisterSecond \/ VerifyPublicKey
    \/ StartFlow \/ Bind \/ Announce \/ Wait \/ Interrupt
    \/ ShutdownRequest \/ ShutdownJoin \/ ServerClose \/ Validate
    \/ Accept \/ DoGet \/ NotFound \/ WriteState \/ WriteError \/ Respond
    \/ AfterFlow \/ Exchange \/ Probe \/ Resolve \/ FetchVehicle \/ Finish

Spec == Init /\ [][Next]_vars

(***************************************************************************)
(* The capture alone: runs with --skip-register, up to the return of       *)
(* run_oauth_browser_flow into main.  Each thread that can take a step     *)
(* eventually takes one; requests and Ctrl-C may or may not come.          *)
(***************************************************************************)
CaptureLines ==
    {CommandLine(FullIdentity, TRUE, TRUE, <<"eu">>, DefaultRedirect, timeout, <<>>, TRUE) :
        timeout \in 0..MaxTimeout}

CaptureInit == Init /\ args \in CaptureLines

MainThread ==
    \/ CheckArgs \/ StartFlow \/ Bind \/ Announce \/ Wait
    \/ ShutdownRequest \/ ShutdownJoin \/ ServerClose \/ Validate \/ AfterFlow

ServerThread == DoGet \/ NotFound \/ WriteState \/ WriteError \/ Respond

CaptureNext == MainThread \/ ServerThread \/ Accept \/ Interrupt

CaptureSpec ==
    CaptureInit /\ [][CaptureNext]_vars /\ WF_vars(MainThread) /\ WF_vars(ServerThread)

(***************************************************************************)
(* Properties.                                                             *)
(***************************************************************************)
ProviderError == "OAuth error from callback"
TimedOut      == "Timed out waiting for callback code."
StateMismatch == "State mismatch; aborting for safety."
RedirectError == "redirect_uri must be http://localhost:3000/callback style for local capture"

\* the main thread is inside run_oauth_browser_flow, past the redirect check
InFlow == pc \in {"bind", "announce", "wait", "shutdown", "join", "close", "validate"}

\* run_oauth_browser_flow has validated the captured record and returned
Validated == listener = "closed" /\ ~raising /\ pc # "validate"

\* the path the redirect target configures, read off the command line
ConfiguredPath == IF args.redirect_uri.path = "" THEN "/" ELSE args.redirect_uri.path

\* a request to the callback path has been taken by the server thread
CallbackSeen ==
    \/ received
    \/ hpc \in {"write_state", "write_error", "respond"}
    \/ hpc = "do_GET" /\ req.path = ConfiguredPath

\* C1: once a request to the callback path has been handled, no later request
\* changes code, state or error of the captured record (first write wins).
C1_FirstWriteAuthoritative == [][received => result' = result]_vars

\* C2 as stated: whenever the validated callback carried a state different from
\* the generated one, the flow reports the state mismatch and no token exchange
\* POST is made.
C2_MismatchReported ==
    (Validated /\ received /\ result.state \notin {"None", state})
        => (oauth_err = StateMismatch /\ "exchange" \notin contacted)

\* C2 amended: when the state of the validated record (that of the last callback
\* request handled) differs from the generated one, the flow returns no code and
\* an error - the provider error if the record has an error, the timeout if it
\* has no code, the state mismatch otherwise - and no token exchange POST is
\* ever made; an exchange is made only after a record with the generated state.
C2_MismatchNeverExchanged ==
    /\ (Validated /\ received /\ result.state # state)
          => /\ code = ""
             /\ oauth_err = IF result.error # "None" THEN ProviderError
                            ELSE IF result.code = "None" THEN TimedOut
                            ELSE StateMismatch
             /\ "exchange" \notin contacted
    /\ "exchange" \in contacted => (received /\ result.state = state)

C2_Witness ==
    /\ pc = "exit" /\ exit_code = "1"
    /\ Validated /\ received
    /\ result.code # "None" /\ result.error = "None"
    /\ result.state \notin {"None", state}
    /\ oauth_err = StateMismatch

\* C3: whenever the main thread is outside run_oauth_browser_flow, the listener
\* is not bound: it was never bound, or it was shut down and closed.
C3_ListenerReleasedOnExit == ~InFlow => listener \in {"none", "closed"}

\* C4 as stated: if no request to the callback path came in before the deadline
\* (here for a timeout of at least one poll), the flow returns the timeout error.
C4_TimeoutWithoutEarlyCallback ==
    (pc = "returned" /\ listener = "closed" /\ ~early /\ args.timeout_seconds > 0)
        => (code = "" /\ oauth_err = TimedOut)

\* C4 amended: if no request to the callback path is taken by the listener
\* before it is shut down (one that comes after the deadline but before
\* server.shutdown() is still captured), then, unless Ctrl-C interrupts it, the
\* flow eventually returns the timeout error with an empty code, and the
\* listener socket is closed when it returns.
C4_TimeoutReturned ==
    /\ [](pc = "returned" /\ listener # "none" /\ ~CallbackSeen
            => code = "" /\ oauth_err = TimedOut /\ listener = "closed")
    /\ (listener = "serving")
          ~> \/ CallbackSeen
             \/ raising
             \/ exit_code = "crash"
             \/ pc = "returned" /\ code = "" /\ oauth_err = TimedOut /\ listener = "closed"

C4_Witness ==
    /\ pc = "returned" /\ listener = "closed"
    /\ ~CallbackSeen /\ nreq > 0
    /\ args.timeout_seconds > 0 /\ elapsed = args.timeout_seconds
    /\ code = "" /\ oauth_err = TimedOut

\* C5: a request to a path other than the configured callback path is answered
\* 404 and leaves code, state and error as they were, whatever its query and
\* whatever else happens meanwhile; only a request to exactly the configured
\* path changes them.
C5_OtherPathsIgnored ==
    [][ /\ (hpc # "idle" /\ req.path # ConfiguredPath)
            => (result' = result /\ hpc' \in {hpc, "not_found", "idle"})
        /\ (hpc = "do_GET" /\ req.path # ConfiguredPath) => hpc' \in {"do_GET", "not_found"}
        /\ result' # result => (hpc # "idle" /\ req.path = ConfiguredPath)
      ]_vars

C5_Witness ==
    /\ hpc = "not_found"
    /\ req.path # ConfiguredPath /\ req.code # "None" /\ req.state = state
    /\ result = NoResult

\* C6: the validation after the capture goes in a fixed order: provider error
\* whenever error is present; else timeout whenever code is absent; else state
\* mismatch whenever state differs from the generated one; the code is returned
\* exactly when error is absent, code is present and state is the generated one.
C6_ValidationOrder ==
    (pc = "returned" /\ listener = "closed")
        => /\ result.error # "None" => (code = "" /\ oauth_err = ProviderError)
           /\ (result.error = "None" /\ result.code = "None")
                 => (code = "" /\ oauth_err = TimedOut)
           /\ (result.error = "None" /\ result.code # "None" /\ result.state # state)
                 => (code = "" /\ oauth_err = StateMismatch)
           /\ (result.error = "None" /\ result.code # "None" /\ result.state = state)
                 => (code = result.code /\ oauth_err = "")
           /\ code # "" <=> oauth_err = ""

C6_Witness ==
    /\ pc = "returned" /\ listener = "closed"
    /\ result.error # "None" /\ result.code # "None"
    /\ result.state \notin {"None", state}
    /\ oauth_err = ProviderError

\* C7: when the malformed redirect target is reported, no network call of the
\* run has been made.
C7_RedirectCheckedBeforeNetwork == oauth_err = RedirectError => contacted = {}

\* the error text of the second answer alone: its error or message field, or,
\* without them, its raw body
SecondErrorText(r2) ==
    IF Strip(Or(r2.error, r2.message)) # <<>> THEN Strip(Or(r2.error, r2.message))
    ELSE Strip(r2.raw)

\* C8: when both registration POSTs answered non-2xx and the error text of the
\* second answer contains "already" and "register" in any case, the outcome is
\* already_registered, whatever the first answer was, and main goes on to the
\* key verification as after registered.
C8_SecondAnswerDecides ==
    ( /\ pc \in {"verify", "exit"}
      /\ ~Is2xx(reg1.status) /\ ~Is2xx(reg2.status)
      /\ In("already", Lower(SecondErrorText(reg2)))
      /\ In("register", Lower(SecondErrorText(reg2))) )
        => (registered = <<TRUE, "already_registered">> /\ pc = "verify")

\* the /users/region calls of the run, in order
RegionCalls == SelectSeq(calls, LAMBDA c : c.kind = "region")

\* C9: the regions are probed in the order of REGION_ORDER, each at most once;
\* a region is probed only if every earlier one answered non-2xx, and nothing
\* is probed after the first 2xx answer.
C9_ProbeOrder ==
    /\ Len(probes) <= Len(REGION_ORDER)
    /\ \A i \in DOMAIN probes : probes[i].region = REGION_ORDER[i]
    /\ \A i \in DOMAIN probes : i < Len(probes) => ~Is2xx(probes[i].status)
    /\ (probes # <<>> /\ Is2xx(probes[Len(probes)].status)) => pc # "detect"
    /\ Len(RegionCalls) = Len(probes)
    /\ \A i \in DOMAIN probes : RegionCalls[i].to = REGION_AUDIENCE(probes[i].region)

C9_Witness ==
    /\ pc = "exit" /\ exit_code = "0"
    /\ Len(probes) = 1 /\ Is2xx(probes[1].status)

\* the first probe, in priority order, that was answered 2xx
FirstSuccess == CHOOSE i \in DOMAIN probes :
    Is2xx(probes[i].status) /\ \A j \in 1..(i - 1) : ~Is2xx(probes[j].status)

\* C10 as stated: the detected audience is the base URL the first 2xx answer
\* declares when it declares a non-empty one, else that region's audience.
C10_DeclaredBaseAsIs ==
    (pc = "detected" /\ detected[2] = "")
        => LET p == probes[FirstSuccess]
           IN  detected[1] = IF p.base # <<>> THEN p.base ELSE REGION_AUDIENCE(p.region)

\* C10 amended: the detected audience comes from the first 2xx answer in
\* priority order alone: it is the declared base URL with surrounding white
\* space and then trailing slashes removed, when the declared URL is not empty
\* or blank, else that region's audience constant.
C10_NormalizedBase ==
    (pc \in {"detected", "vehicles", "finish", "exit"} /\ probes # <<>> /\ detected[2] = "")
        => /\ \E i \in DOMAIN probes : Is2xx(probes[i].status)
           /\ LET p == probes[FirstSuccess]
                  trimmed == Strip(p.base)
              IN  detected[1] = IF trimmed # <<>> THEN RStripOf(trimmed, "/")
                                ELSE REGION_AUDIENCE(p.region)

C10_Witness ==
    /\ pc = "detected"
    /\ Len(probes) = 2 /\ ~Is2xx(probes[1].status) /\ Is2xx(probes[2].status)
    /\ probes[2].base = <<" ", "https://x", "/", "/", " ">>
    /\ detected = << <<"https://x">>, "" >>

\* every region of REGION_ORDER was probed and answered non-2xx
Exhausted ==
    /\ Len(probes) = Len(REGION_ORDER)
    /\ \A i \in DOMAIN probes : ~Is2xx(probes[i].status)

\* the /vehicles calls of the run
VehicleCalls == SelectSeq(calls, LAMBDA c : c.kind = "vehicles")

\* C11: when every region answered non-2xx the detection returns an error and
\* the run goes on: main takes the default audience (that of "eu"), makes the
\* /vehicles call it was asked for at that audience and ends with status 0
\* (a run dies there only of a malformed /vehicles answer); with --audience
\* given no region is probed and the forced audience is the one used.
C11_DetectionFailureNotFatal ==
    /\ (Exhausted /\ pc = "detected") => (detected[2] # "" /\ exit_code = "running")
    /\ (Exhausted /\ pc \in {"vehicles", "finish", "exit"})
          => /\ resolved_audience = EU_AUDIENCE
             /\ \A i \in DOMAIN VehicleCalls : VehicleCalls[i].to = EU_AUDIENCE
             /\ exit_code \in {"running", "0", "crash"}
             /\ exit_code = "crash" => FetchRaises(listing)
             /\ (pc \in {"finish", "exit"} /\ args.fetch_vehicle_id)
                   => "vehicles" \in contacted
    /\ args.audience # <<>>
          => /\ probes = <<>> /\ "region" \notin contacted
             /\ access_token # "" => resolved_audience = args.audience
             /\ \A i \in DOMAIN VehicleCalls : VehicleCalls[i].to = args.audience

C11_Witness ==
    /\ pc = "exit" /\ exit_code = "0"
    /\ Exhausted /\ detected[2] # ""
    /\ resolved_audience = EU_AUDIENCE
    /\ Len(VehicleCalls) = 1

\* the calls of one kind made in the current phase, in order
KindCalls(kind) == SelectSeq(calls, LAMBDA c : c.kind = kind)

\* a run that registers in exactly one region
OneRegion == ~args.skip_register /\ Len(args.register_regions) = 1

\* every call made so far in the phase was answered 2xx
AllOk == \A i \in DOMAIN answers : Is2xx(answers[i])

\* C12: in a run with one target region whose vendor calls all answer 2xx, the
\* registration phase never makes more than one partner-credential POST, one
\* registration POST and one key-verification GET, the credential POST carries
\* that region's audience, and when the phase is over it has made exactly one
\* of each and reports registered with the key verified.
C12_OneRegionAllOk ==
    (OneRegion /\ AllOk /\ listener = "none")
        => /\ Len(KindCalls("partner_token")) <= 1
           /\ Len(KindCalls("register")) <= 1
           /\ Len(KindCalls("verify")) <= 1
           /\ \A i \in DOMAIN KindCalls("partner_token") :
                 /\ KindCalls("partner_token")[i].to = TOKEN_HOST
                 /\ KindCalls("partner_token")[i].aud
                       = REGION_AUDIENCE(args.register_regions[1])
           /\ pc = "oauth"
                 => /\ Len(KindCalls("partner_token")) = 1
                    /\ Len(KindCalls("register")) = 1
                    /\ Len(KindCalls("verify")) = 1
                    /\ report = << [region |-> args.register_regions[1],
                                    registration |-> "registered", key |-> "verified"] >>

C12_Witness ==
    /\ pc = "oauth" /\ OneRegion /\ AllOk
    /\ Len(KindCalls("register")) = 1 /\ Len(KindCalls("verify")) = 1
    /\ report # <<>> /\ report[1].key = "verified"

\* C13: every registration POST and key-verification GET sent to an audience
\* carries the credential that the token host issued in answer to a
\* partner-credential POST made for that same audience.
C13_CredentialScoped ==
    \A i \in DOMAIN calls :
        calls[i].kind \in {"register", "verify"}
            => \E k \in DOMAIN KindCalls("partner_token") :
                  /\ KindCalls("partner_token")[k].aud = calls[i].to
                  /\ calls[i].cred = PartnerCredential(k)

C13_Witness ==
    /\ pc = "oauth"
    /\ Len(KindCalls("partner_token")) = 2
    /\ \E i, j \in DOMAIN calls :
          /\ calls[i].kind = "register" /\ calls[i].to = NA_AUDIENCE
          /\ calls[j].kind = "verify" /\ calls[j].to = EU_AUDIENCE
          /\ calls[i].cred # calls[j].cred

\* C14: a run ends with status 0 only when no core step failed: the capture
\* returned a code, the exchange gave an access token and the /vehicles lookup,
\* if made, gave a vehicle id; every run that ends earlier ends non-zero.
C14_FailuresExitNonZero ==
    (pc = "exit" /\ exit_code = "0")
        => /\ oauth_err = "" /\ code # ""
           /\ "exchange" \in contacted /\ access_token # ""
           /\ vehicle[2] = ""

\* C15: whatever the key verification answers, the step that follows it is the
\* same: the result is put in the region's report line, the run stays alive,
\* and main goes to the next region or, after the last one, to the
\* authorization phase.
C15_VerifyFailureNotFatal ==
    [][ pc = "verify"
          => /\ exit_code' = "running"
             /\ pc' = IF region_i < Len(args.register_regions)
                       THEN "partner_token" ELSE "oauth"
             /\ region_i' = IF region_i < Len(args.register_regions)
                             THEN region_i + 1 ELSE region_i
             /\ report'[Len(report')].key
                   = IF Is2xx(answers'[Len(answers')]) THEN "verified" ELSE "verify failed"
      ]_vars

C15_Witness ==
    /\ pc = "oauth" /\ exit_code = "running"
    /\ Len(report) = 2
    /\ report[1].key = "verify failed" /\ report[2].key = "verified"

\* the /vehicles call was made and fetch_vehicle_id has returned or raised
Fetched == listing.status # 0

\* the error fetch_vehicle_id returns for a 2xx answer with an empty list
EmptyListError == fetch_vehicle_id([status |-> 200, is_list |-> TRUE, list |-> <<>>])[2]

\* C16: for a 2xx answer whose list is not empty and whose first element has
\* no identifier, fetch_vehicle_id returns an error that differs from the one
\* it returns for a 2xx answer with an empty list.
C16_MissingIdDistinct ==
    ( /\ Fetched /\ pc \in {"finish", "exit"}
      /\ Is2xx(listing.status) /\ listing.is_list /\ listing.list # <<>>
      /\ listing.list[1].dict /\ listing.list[1].id = "" )
        => (vehicle[1] = "" /\ vehicle[2] # "" /\ vehicle[2] # EmptyListError)

\* C17: fetch_vehicle_id returns an identifier exactly when the answer is 2xx,
\* its list is not empty and the first element has an identifier, and the
\* identifier returned is the first element's; for a 2xx answer with an empty
\* list it returns, and does not raise, the 'no vehicles' error.
C17_FirstVehicle ==
    (Fetched /\ pc \in {"finish", "exit"})
        => /\ (vehicle[1] # "" /\ exit_code # "crash")
                 <=> ( /\ Is2xx(listing.status) /\ listing.is_list /\ listing.list # <<>>
                       /\ listing.list[1].dict /\ listing.list[1].id # "" )
           /\ vehicle[1] # "" => vehicle = <<listing.list[1].id, "">>
           /\ vehicle[1] = "" <=> (vehicle[2] # "" \/ exit_code = "crash")
           /\ (Is2xx(listing.status) /\ listing.is_list /\ listing.list = <<>>)
                 => /\ exit_code # "crash"
                    /\ vehicle = <<"", "No vehicles returned from /vehicles response.">>

C17_Witness ==
    /\ pc = "exit" /\ exit_code = "0"
    /\ Len(listing.list) = 2
    /\ listing.list[1].id = "v2" /\ listing.list[2].id = "v1"
    /\ vehicle = <<"v2", "">>

\* the kinds of call of the registration phase
RegistrationKinds == {"key_fetch", "partner_token", "register", "verify"}

\* the token exchange of the run was answered 2xx
ExchangeAnswered2xx ==
    \E i \in DOMAIN calls : calls[i].kind = "exchange" /\ Is2xx(answers[i])

\* C18: the phases come in a fixed order.  A registration-phase call is sent
\* only while no listener was ever started and before any exchange; the token
\* exchange POST is sent only when the listener is closed and the capture
\* returned the code of a record with the generated state; a /users/region or
\* /vehicles call is sent only after the exchange answered 2xx with an access
\* token; and of the runs that get past the exchange, those that probe a
\* region are exactly those without a forced audience.
C18_PhaseOrder ==
    /\ []( (access_token # "" /\ pc \in {"vehicles", "finish", "exit"})
              => ("region" \in contacted <=> args.audience = <<>>) )
    /\ [][ Len(calls') = Len(calls) + 1
             => LET kind == calls'[Len(calls')].kind
                IN  /\ kind \in RegistrationKinds
                          => /\ listener = "none" /\ pc \notin {"oauth", "bind"}
                             /\ contacted \subseteq RegistrationKinds
                    /\ kind = "exchange"
                          => /\ listener = "closed"
                             /\ oauth_err = "" /\ code # ""
                             /\ result.code = code /\ result.state = state
                             /\ calls'[Len(calls')].cred = code
                    /\ kind \in {"region", "vehicles"}
                          => /\ ExchangeAnswered2xx /\ access_token # ""
                             /\ calls'[Len(calls')].cred = access_token
                    /\ kind = "region" => args.audience = <<>>
                    /\ kind = "vehicles" =>
                          (args.audience = <<>> <=> "region" \in contacted)
       ]_vars

C18_Witness ==
    /\ pc = "exit" /\ exit_code = "0"
    /\ contacted = {"partner_token", "register", "verify", "exchange", "region", "vehicles"}

\* C19: once a request to the callback path has been handled, whatever its
\* query, the wait loop sleeps no further poll: its next test ends the wait
\* instead of going on until the deadline.
C19_ReceivedEndsWait ==
    [][ (pc = "wait" /\ received) => (elapsed' = elapsed /\ pc' \in {"wait", "shutdown"}) ]_vars

\* the registration POSTs that carried the credential cred, as indices of calls
RegisterPosts(cred) ==
    {i \in DOMAIN calls : calls[i].kind = "register" /\ calls[i].cred = cred}

Lowest(set) == CHOOSE i \in set : \A j \in set : i <= j

Highest(set) == CHOOSE i \in set : \A j \in set : j <= i

\* C20: one call of register_partner_account (one credential) makes at most
\* two registration POSTs; the first names only the domain; the second, which
\* adds the key URL, is made exactly when the first answered non-2xx; and the
\* call returns registered as soon as a POST answered 2xx.
C20_AtMostTwoPosts ==
    /\ \A k \in DOMAIN KindCalls("partner_token") :
          LET posts == RegisterPosts(PartnerCredential(k))
          IN  /\ Cardinality(posts) <= 2
              /\ posts # {} => calls[Lowest(posts)].aud = <<"domain">>
              /\ Cardinality(posts) = 2
                    => /\ calls[Highest(posts)].aud = <<"domain", "public_key_url">>
                       /\ ~Is2xx(answers[Lowest(posts)])
              /\ (Cardinality(posts) = 1 /\ ~Is2xx(answers[Lowest(posts)]))
                    => (pc = "register2" /\ partner_token = PartnerCredential(k))
    /\ pc = "register2" => ~Is2xx(answers[Len(answers)])
    /\ (pc = "verify" /\ Is2xx(answers[Len(answers)]))
          => registered = <<TRUE, "registered">>

C20_Witness ==
    /\ pc = "verify"
    /\ Cardinality(RegisterPosts(partner_token)) = 2
    /\ ~Is2xx(answers[Len(answers) - 1]) /\ Is2xx(answers[Len(answers)])
    /\ registered = <<TRUE, "registered">>

\* the credential POST was the last call made: main is at its answer
AtCredentialAnswer ==
    listener = "none" /\ calls # <<>> /\ calls[Len(calls)].kind = "partner_token"

\* C21: build_partner_token returns a credential exactly when the token host
\* answered 2xx with a credential field; after a non-2xx answer or a 2xx
\* answer without the field main prints the error and ends the run, so that no
\* registration POST or key-verification GET follows for that region; and no
\* such call is ever made with an empty credential.
C21_CredentialOrError ==
    /\ AtCredentialAnswer
          => /\ partner_token # ""
                   <=> (Is2xx(credential_answer.status) /\ credential_answer.has_token)
             /\ partner_token # "" => (pc = "register1" /\ exit_code = "running")
             /\ partner_token = "" => (pc = "exit" /\ exit_code = "1")
    /\ \A i \in DOMAIN calls :
          /\ calls[i].kind \in {"register", "verify"} => calls[i].cred # ""
          /\ (calls[i].kind = "partner_token" /\ i < Len(calls))
                => /\ Is2xx(answers[i])
                   /\ calls[i + 1].kind = "register"
    /\ (credential_answer.status # 0
           /\ ~(Is2xx(credential_answer.status) /\ credential_answer.has_token))
          => (AtCredentialAnswer /\ pc = "exit")

C21_Witness ==
    /\ pc = "exit" /\ exit_code = "1"
    /\ AtCredentialAnswer
    /\ Is2xx(credential_answer.status) /\ ~credential_answer.has_token
    /\ Len(KindCalls("partner_token")) = 2 /\ Len(KindCalls("register")) = 1

\* C22: when the record is read for validation (the listener is closed) no
\* handler is at work and code, state and error are those of one and the same
\* request to the callback path, the last one written from, or all absent when
\* there was none; a code that is returned is that request's code and came
\* with the generated state.
C22_RecordFromOneRequest ==
    listener = "closed"
        => /\ hpc = "idle"
           /\ result = [code |-> source.code, state |-> source.state,
                        error |-> source.error]
           /\ source # NoRequest <=> received
           /\ code # "" => (code = source.code /\ source.state = state
                              /\ source.error = "None")

C22_Witness ==
    /\ pc = "returned" /\ listener = "closed"
    /\ nreq = 2 /\ received
    /\ source.path = ConfiguredPath
    /\ source.code = "c2" /\ source.state = state
    /\ code = "c2"

\* the positions of --register-regions that name a known region for the first time
FirstMentions(input) ==
    {i \in DOMAIN input :
        /\ ItemRegion(input[i]) \in {"eu", "na"}
        /\ \A j \in 1..(i - 1) : ItemRegion(input[j]) # ItemRegion(input[i])}

\* the audiences of the regions known in the input, each once, in input
\* order; those of eu and na when the input names no known region
ExpectedAudiences(input) ==
    LET known == SelectSeq([i \in DOMAIN input |-> i], LAMBDA i : i \in FirstMentions(input))
    IN  IF known = <<>> THEN <<EU_AUDIENCE, NA_AUDIENCE>>
        ELSE [k \in DOMAIN known |-> IF ItemRegion(input[known[k]]) = "na"
                                      THEN NA_AUDIENCE ELSE EU_AUDIENCE]

\* the audiences credentials were asked for in the registration phase, in order
CredentialAudiences ==
    [k \in DOMAIN KindCalls("partner_token") |-> KindCalls("partner_token")[k].aud]

\* the latest credential POST before the i-th call
CredentialBefore(i) ==
    Highest({j \in 1..i : calls[j].kind = "partner_token"})

\* C23: the registration phase goes through the known regions of the input,
\* each once and in input order (eu then na when the input names none): the
\* audiences credentials are asked for are a prefix of that list and every
\* registration POST and verification GET goes to the audience of the latest
\* credential.  When the credential or the registration of a region fails the
\* run ends there with status 1: that call is the last one made and the
\* listener is never started.
C23_RegionsInOrderFailFast ==
    /\ [](listener = "none"
            => /\ Len(CredentialAudiences) <= Len(ExpectedAudiences(args.register_regions_input))
               /\ \A k \in DOMAIN CredentialAudiences :
                     CredentialAudiences[k] = ExpectedAudiences(args.register_regions_input)[k]
               /\ \A i \in DOMAIN calls :
                     calls[i].kind \in {"register", "verify"}
                        => calls[i].to = calls[CredentialBefore(i)].aud
               /\ pc = "oauth" /\ ~args.skip_register
                     => CredentialAudiences = ExpectedAudiences(args.register_regions_input))
    /\ [](((AtCredentialAnswer /\ partner_token = "") \/ registered = <<FALSE, "failed">>)
            => (pc = "exit" /\ exit_code = "1" /\ listener = "none"))
    /\ [][exit_code # "running"
            => (calls' = calls /\ contacted' = contacted /\ listener' = listener)]_vars

C23_Witness ==
    /\ pc = "exit" /\ exit_code = "1" /\ listener = "none"
    /\ args.register_regions_input = <<" EU ", "na", "eu">>
    /\ CredentialAudiences = <<EU_AUDIENCE, NA_AUDIENCE>>
    /\ registered = <<FALSE, "failed">>
    /\ Len(KindCalls("verify")) = 1

====
